---- MODULE Spec2Model ----
(***************************************************************************)
(* Model of static/script.js: the dashboard front end of the support-email *)
(* assistant.  The script is single-threaded and event-driven: one action  *)
(* of the model is one run of a handler, or of the continuation of an      *)
(* async function after its awaited request settles, from its first        *)
(* statement to the next await (or its end).                               *)
(*                                                                         *)
(* Texts are sequences of tokens (a token is one whitespace character or a *)
(* run of other characters), so that String.prototype.trim is computed.    *)
(* An identifier the backend sends as a number is written "n1"; the DOM    *)
(* stores it as the string "1".                                            *)
(***************************************************************************)
EXTENDS Integers, Sequences, FiniteSets, TLC

\* ---------------------------------------------------------------- bounds
MaxLoads == 2      \* fetch_emails requests in flight at once
MaxDrafts == 2     \* generate_response requests in flight at once

MaxCards == 3      \* cards of the list the user may pick from
MaxEmails == 3     \* records of a collection whose counts are computed

\* ------------------------------------------------------------- constants
Undef == "undefined"
NoUser == "null"
Uid == "uid-1"

PLACEHOLDER == <<"AI is drafting a response...">>
FALLBACK == <<"Failed to generate AI response. Please try again.">>

Toast(message, type) == [message |-> message, type |-> type]
ToastAuthFailed == Toast("Authentication failed. Please check your Firebase setup.", "error")
ToastLoadFailed == Toast("Failed to load emails. Please try again later.", "error")
ToastDraftFailed == Toast("Failed to generate AI response.", "error")
ToastBlank == Toast("Please write a response before sending.", "warning")
ToastSent == Toast("Response sent successfully!", "success")
ToastSendFailed == Toast("Failed to send response. Please try again.", "error")
ToastSeeding == Toast("Seeding database with mock emails...", "warning")
ToastSeeded == Toast("Database seeded successfully!", "success")
ToastSeedFailed == Toast("Failed to seed database. It may already be seeded.", "error")

\* ------------------------------------------------------- pure functions
WhiteSpace == {" ", "\t", "\n"}

RECURSIVE TrimStart(_)
TrimStart(s) ==
    IF s = <<>> THEN <<>>
    ELSE IF Head(s) \in WhiteSpace THEN TrimStart(Tail(s)) ELSE s

RECURSIVE TrimEnd(_)
TrimEnd(s) ==
    IF s = <<>> THEN <<>>
    ELSE IF s[Len(s)] \in WhiteSpace THEN TrimEnd(SubSeq(s, 1, Len(s) - 1)) ELSE s

\* variant: the text is compared without being trimmed
Trim_Omitted(s) == s

\* String.prototype.trim
Trim(s) == TrimEnd(TrimStart(s))

\* String.prototype.toLowerCase behind the optional chain ?. : an absent
\* field stays undefined
ToLowerCase(s) ==
    CASE s = "Positive" -> "positive"
      [] s = "NEGATIVE" -> "negative"
      [] s = "Urgent" -> "urgent"
      [] OTHER -> s

\* the string the DOM keeps for an identifier (template literal / dataset)
DatasetStr(id) == IF id = "n1" THEN "1" ELSE id

\* e.id === emailId, emailId being a string read from the DOM
StrictEq(id, str) == id # "n1" /\ id = str

Email(id, status, sentiment, priority) ==
    [id |-> id, status |-> status, sentiment |-> sentiment, priority |-> priority]

\* the collections the backend may answer fetch_emails with
Payloads ==
    { <<>>,
      << Email("a", "pending", "Positive", "Urgent"),
         Email("b", "resolved", Undef, Undef),
         Email("n1", "pending", "negative", "low") >> }

\* the reply texts the backend may draft
DraftTexts == { <<"Dear customer, ...">> }

\* what the user may type into the editor
UserTexts == { <<" ", "\n">>, <<" ", "Thanks!", " ">> }

\* How a request settles: the fetch promise rejects (net = FALSE), or a
\* response arrives with response.ok = ok, whose body parses as JSON or not,
\* and whose parsed body has the given status and payload.
Outcome(net, ok, json, status, body) ==
    [net |-> net, ok |-> ok, json |-> json, status |-> status, body |-> body]

Transport == Outcome(FALSE, FALSE, FALSE, Undef, <<>>)
HttpError == Outcome(TRUE, FALSE, TRUE, "error", <<>>)
BadJson == Outcome(TRUE, TRUE, FALSE, Undef, <<>>)
NoOutcome == Outcome(FALSE, FALSE, FALSE, "none", <<>>)

FetchOutcomes ==
    {Transport, HttpError, BadJson} \cup
    { Outcome(TRUE, TRUE, TRUE, Undef, p) : p \in Payloads }

DraftOutcomes ==
    {Transport, BadJson, Outcome(TRUE, TRUE, TRUE, "error", <<>>)} \cup
    { Outcome(TRUE, ok, TRUE, "success", t) : ok \in BOOLEAN, t \in DraftTexts }

StatusOutcomes ==
    {Transport, BadJson,
     Outcome(TRUE, FALSE, TRUE, "success", <<>>),
     Outcome(TRUE, TRUE, TRUE, "error", <<>>),
     Outcome(TRUE, TRUE, TRUE, "success", <<>>)}

\* ------------------------------------------------------------ the state
VARIABLES
    currentUserId,   \* let currentUserId
    isAuthReady,     \* let isAuthReady
    emailsData,      \* let emailsData
    authPhase,       \* where the authentication provider stands
    polling,         \* number of interval timers started by startPolling
    listHidden,      \* emailListView.classList contains 'hidden'
    detailHidden,    \* emailDetailView.classList contains 'hidden'
    listHTML,        \* emailListView.innerHTML
    analytics,       \* the elements written by updateAnalytics
    detailEmail,     \* identifier of the record whose fields the detail view shows
    editorValue,     \* #ai-response-editor value
    editorDisabled,  \* #ai-response-editor disabled
    sendEmailId,     \* sendResponseBtn.dataset.emailId
    sendDisabled,    \* sendResponseBtn.disabled
    seedDisabled,    \* seedDbBtn.disabled
    loads,           \* fetch_emails requests in flight
    drafts,          \* generate_response requests in flight: the email each
                     \* suspended showEmailDetail holds, in the order issued
    curPending,      \* the request of the latest showEmailDetail is in flight
    submit,          \* update_email_status requests in flight (their bodies)
    seeding,         \* seed_emails requests in flight
    ev,              \* the handler or continuation that ran last
    toasts,          \* showToast calls of the last step, in order
    reqs,            \* requests issued by the last step, in order
    loadCalls,       \* loadEmails calls of the last step
    uncaught         \* the last step ended with an uncaught exception

vars == <<currentUserId, isAuthReady, emailsData, authPhase, polling, listHidden,
          detailHidden, listHTML, analytics, detailEmail, editorValue,
          editorDisabled, sendEmailId, sendDisabled, seedDisabled, loads, drafts,
          curPending, submit, seeding, ev, toasts, reqs, loadCalls, uncaught>>

\* the program's own state, without the record of the last step
progVars == <<currentUserId, isAuthReady, emailsData, authPhase, polling, listHidden,
              detailHidden, listHTML, analytics, detailEmail, editorValue,
              editorDisabled, sendEmailId, sendDisabled, seedDisabled, loads, drafts,
              curPending, submit, seeding>>

progVars_noAuth == <<currentUserId, isAuthReady, emailsData, polling, listHidden,
                     detailHidden, listHTML, analytics, detailEmail, editorValue,
                     editorDisabled, sendEmailId, sendDisabled, seedDisabled, loads,
                     drafts, curPending, submit, seeding>>

Event(name, arg, out) == [name |-> name, arg |-> arg, out |-> out]

Html(kind, cards) == [kind |-> kind, cards |-> cards]
Spinner == Html("spinner", <<>>)

showEmptyState == Html("empty", <<>>)

showErrorMessage == Html("error", <<>>)

renderEmailList(emails) ==
    Html("cards", [i \in 1..Len(emails) |->
                     [emailId |-> DatasetStr(emails[i].id),
                      status |-> IF emails[i].status = Undef THEN "N/A"
                                 ELSE emails[i].status]])

Pct(num, den) == [num |-> num, den |-> den]

NoAnalytics ==
    [total |-> -1, resolved |-> -1, pending |-> -1, resolvedBar |-> Pct(0, 1),
     positiveBar |-> Pct(0, 1), neutralBar |-> Pct(0, 1), negativeBar |-> Pct(0, 1),
     urgentBar |-> Pct(0, 1), notUrgentBar |-> Pct(0, 1)]

\* variant: only the status 'pending' is counted as pending
pendingCount_OnlyPending(emails) ==
    Len(SelectSeq(emails, LAMBDA e : e.status = "pending"))

\* variant: every record that is neither positive nor negative is neutral
sentimentCounts_NeutralDefault(emails) ==
    [positive |-> Len(SelectSeq(emails, LAMBDA e : ToLowerCase(e.sentiment) = "positive")),
     neutral |-> Len(SelectSeq(emails, LAMBDA e :
                     ToLowerCase(e.sentiment) \notin {"positive", "negative"})),
     negative |-> Len(SelectSeq(emails, LAMBDA e : ToLowerCase(e.sentiment) = "negative"))]

\* variant: the complement is taken without toLowerCase
priorityCounts_NoLowerCase(emails) ==
    [urgent |-> Len(SelectSeq(emails, LAMBDA e : ToLowerCase(e.priority) = "urgent")),
     notUrgent |-> Len(SelectSeq(emails, LAMBDA e : e.priority # "urgent"))]

\* the counts computed in loadEmails from the fetched collection
\* (Array.prototype.filter(...).length)
resolvedCount(emails) == Len(SelectSeq(emails, LAMBDA e : e.status = "resolved"))
pendingCount(emails) == Len(SelectSeq(emails, LAMBDA e : e.status # "resolved"))
sentimentCounts(emails) ==
    [positive |-> Len(SelectSeq(emails, LAMBDA e : ToLowerCase(e.sentiment) = "positive")),
     neutral |-> Len(SelectSeq(emails, LAMBDA e : ToLowerCase(e.sentiment) = "neutral")),
     negative |-> Len(SelectSeq(emails, LAMBDA e : ToLowerCase(e.sentiment) = "negative"))]
priorityCounts(emails) ==
    [urgent |-> Len(SelectSeq(emails, LAMBDA e : ToLowerCase(e.priority) = "urgent")),
     notUrgent |-> Len(SelectSeq(emails, LAMBDA e : ToLowerCase(e.priority) # "urgent"))]

updateAnalytics(old, total, resolved, pending, sc, pc) ==
    LET totalSentiment == sc.positive + sc.neutral + sc.negative
        totalPriority == pc.urgent + pc.notUrgent
    IN [total |-> total, resolved |-> resolved, pending |-> pending,
        resolvedBar |-> IF total > 0 THEN Pct(resolved, total) ELSE Pct(0, 1),
        positiveBar |-> IF totalSentiment > 0 THEN Pct(sc.positive, totalSentiment)
                        ELSE old.positiveBar,
        neutralBar |-> IF totalSentiment > 0 THEN Pct(sc.neutral, totalSentiment)
                       ELSE old.neutralBar,
        negativeBar |-> IF totalSentiment > 0 THEN Pct(sc.negative, totalSentiment)
                        ELSE old.negativeBar,
        urgentBar |-> IF totalPriority > 0 THEN Pct(pc.urgent, totalPriority)
                      ELSE old.urgentBar,
        notUrgentBar |-> IF totalPriority > 0 THEN Pct(pc.notUrgent, totalPriority)
                         ELSE old.notUrgentBar]

Init ==
    /\ currentUserId = NoUser
    /\ isAuthReady = FALSE
    /\ emailsData = <<>>
    /\ authPhase = "boot"
    /\ polling = 0
    /\ listHidden = FALSE
    /\ detailHidden = TRUE
    /\ listHTML = Html("initial", <<>>)
    /\ analytics = NoAnalytics
    /\ detailEmail = Undef
    /\ editorValue = <<>>
    /\ editorDisabled = FALSE
    /\ sendEmailId = Undef
    /\ sendDisabled = FALSE
    /\ seedDisabled = FALSE
    /\ loads = 0
    /\ drafts = <<>>
    /\ curPending = FALSE
    /\ submit = <<>>
    /\ seeding = 0
    /\ ev = Event("load", "", NoOutcome)
    /\ toasts = <<>>
    /\ reqs = <<>>
    /\ loadCalls = 0
    /\ uncaught = FALSE

\* ------------------------------------------------------------- loadEmails
\* variant: no guard on the session identity
loadEmails_NoGuard ==
    /\ loadCalls' = 1
    /\ loads < MaxLoads
    /\ listHTML' = Spinner
    /\ loads' = loads + 1
    /\ reqs' = <<"fetch_emails">>

\* loadEmails up to its first await: the guard on the session identity, the
\* spinner, and the fetch_emails request.  It is called by other handlers
\* after they have set currentUserId'.
loadEmails ==
    /\ loadCalls' = 1
    /\ IF currentUserId' = NoUser
       THEN /\ reqs' = <<>>
            /\ UNCHANGED <<listHTML, loads>>
       ELSE /\ loads < MaxLoads
            /\ listHTML' = Spinner
            /\ loads' = loads + 1
            /\ reqs' = <<"fetch_emails">>

\* variant: response.ok is not looked at
LoadThrows_NoOkCheck(o) == ~o.net \/ ~o.json

\* the try block of loadEmails throws
LoadThrows(o) == ~o.net \/ ~o.ok \/ ~o.json

\* variant: the catch block calls loadEmails again
LoadDone_Retry(o) ==
    /\ loads > 0
    /\ IF LoadThrows(o)
       THEN /\ toasts' = <<ToastLoadFailed>>
            /\ listHTML' = Spinner
            /\ loads' = loads
            /\ reqs' = <<"fetch_emails">>
            /\ loadCalls' = 1
            /\ UNCHANGED <<emailsData, analytics>>
       ELSE /\ emailsData' = o.body
            /\ listHTML' = IF Len(o.body) = 0 THEN showEmptyState
                           ELSE renderEmailList(o.body)
            /\ analytics' = updateAnalytics(analytics, Len(o.body),
                                resolvedCount(o.body), pendingCount(o.body),
                                sentimentCounts(o.body), priorityCounts(o.body))
            /\ toasts' = <<>>
            /\ loads' = loads - 1
            /\ reqs' = <<>>
            /\ loadCalls' = 0
    /\ ev' = Event("loadDone", "", o)
    /\ uncaught' = FALSE
    /\ UNCHANGED <<currentUserId, isAuthReady, authPhase, polling, listHidden,
                   detailHidden, detailEmail, editorValue, editorDisabled,
                   sendEmailId, sendDisabled, seedDisabled, drafts, curPending,
                   submit, seeding>>

\* variant: an empty payload does not replace the collection
LoadDone_KeepOnEmpty(o) ==
    /\ loads > 0
    /\ loads' = loads - 1
    /\ IF LoadThrows(o)
       THEN /\ toasts' = <<ToastLoadFailed>>
            /\ listHTML' = showErrorMessage
            /\ UNCHANGED <<emailsData, analytics>>
       ELSE /\ emailsData' = IF Len(o.body) = 0 THEN emailsData ELSE o.body
            /\ listHTML' = IF Len(emailsData') = 0 THEN showEmptyState
                           ELSE renderEmailList(emailsData')
            /\ analytics' = updateAnalytics(analytics, Len(emailsData'),
                                resolvedCount(emailsData'), pendingCount(emailsData'),
                                sentimentCounts(emailsData'), priorityCounts(emailsData'))
            /\ toasts' = <<>>
    /\ ev' = Event("loadDone", "", o)
    /\ reqs' = <<>>
    /\ loadCalls' = 0
    /\ uncaught' = FALSE
    /\ UNCHANGED <<currentUserId, isAuthReady, authPhase, polling, listHidden,
                   detailHidden, detailEmail, editorValue, editorDisabled,
                   sendEmailId, sendDisabled, seedDisabled, drafts, curPending,
                   submit, seeding>>

\* loadEmails after the fetch_emails request has settled with outcome o
LoadDone(o) ==
    /\ loads > 0
    /\ loads' = loads - 1
    /\ IF LoadThrows(o)
       THEN /\ toasts' = <<ToastLoadFailed>>
            /\ listHTML' = showErrorMessage
            /\ UNCHANGED <<emailsData, analytics>>
       ELSE /\ emailsData' = o.body
            /\ listHTML' = IF Len(o.body) = 0 THEN showEmptyState
                           ELSE renderEmailList(o.body)
            /\ analytics' = updateAnalytics(analytics, Len(o.body),
                                resolvedCount(o.body), pendingCount(o.body),
                                sentimentCounts(o.body), priorityCounts(o.body))
            /\ toasts' = <<>>
    /\ ev' = Event("loadDone", "", o)
    /\ reqs' = <<>>
    /\ loadCalls' = 0
    /\ uncaught' = FALSE
    /\ UNCHANGED <<currentUserId, isAuthReady, authPhase, polling, listHidden,
                   detailHidden, detailEmail, editorValue, editorDisabled,
                   sendEmailId, sendDisabled, seedDisabled, drafts, curPending,
                   submit, seeding>>

\* ------------------------------------------------------ session bootstrap
\* polling timers after a call of startPolling
startPolling == polling + 1

\* onAuthStateChanged callback, user present: an identity existed at load,
\* or the anonymous sign-in has succeeded
AuthUser ==
    /\ authPhase \in {"boot", "signingIn"}
    /\ authPhase' = "signedIn"
    /\ currentUserId' = Uid
    /\ isAuthReady' = TRUE
    /\ loadEmails
    /\ polling' = startPolling
    /\ ev' = Event("authUser", "", NoOutcome)
    /\ toasts' = <<>>
    /\ uncaught' = FALSE
    /\ UNCHANGED <<emailsData, listHidden, detailHidden, analytics, detailEmail,
                   editorValue, editorDisabled, sendEmailId, sendDisabled,
                   seedDisabled, drafts, curPending, submit, seeding>>

\* onAuthStateChanged callback, no user: up to await signInAnonymously
AuthNoUser ==
    /\ authPhase = "boot"
    /\ authPhase' = "signingIn"
    /\ ev' = Event("authNoUser", "", NoOutcome)
    /\ reqs' = <<"signInAnonymously">>
    /\ toasts' = <<>>
    /\ loadCalls' = 0
    /\ uncaught' = FALSE
    /\ UNCHANGED progVars_noAuth

\* variant: the catch block does not mark the session ready
SignInFailed_NotReady ==
    /\ authPhase = "signingIn"
    /\ authPhase' = "failed"
    /\ toasts' = <<ToastAuthFailed>>
    /\ ev' = Event("signInFailed", "", Transport)
    /\ reqs' = <<>>
    /\ loadCalls' = 0
    /\ uncaught' = FALSE
    /\ UNCHANGED <<currentUserId, isAuthReady, emailsData, polling, listHidden,
                   detailHidden, listHTML, analytics, detailEmail, editorValue,
                   editorDisabled, sendEmailId, sendDisabled, seedDisabled, loads,
                   drafts, curPending, submit, seeding>>

\* the catch block of the callback: signInAnonymously has rejected
SignInFailed ==
    /\ authPhase = "signingIn"
    /\ authPhase' = "failed"
    /\ isAuthReady' = TRUE
    /\ toasts' = <<ToastAuthFailed>>
    /\ ev' = Event("signInFailed", "", Transport)
    /\ reqs' = <<>>
    /\ loadCalls' = 0
    /\ uncaught' = FALSE
    /\ UNCHANGED <<currentUserId, emailsData, polling, listHidden, detailHidden,
                   listHTML, analytics, detailEmail, editorValue, editorDisabled,
                   sendEmailId, sendDisabled, seedDisabled, loads, drafts,
                   curPending, submit, seeding>>

\* ------------------------------------------------------------- polling
\* variant: the timer callback reloads whatever view is visible
Tick_NoViewGuard ==
    /\ polling > 0
    /\ UNCHANGED <<currentUserId, isAuthReady, emailsData, authPhase, polling,
                   listHidden, detailHidden, analytics, detailEmail, editorValue,
                   editorDisabled, sendEmailId, sendDisabled, seedDisabled, drafts,
                   curPending, submit, seeding>>
    /\ loadEmails
    /\ ev' = Event("tick", "", NoOutcome)
    /\ toasts' = <<>>
    /\ uncaught' = FALSE

\* the setInterval callback of startPolling
Tick ==
    /\ polling > 0
    /\ UNCHANGED <<currentUserId, isAuthReady, emailsData, authPhase, polling,
                   listHidden, detailHidden, analytics, detailEmail, editorValue,
                   editorDisabled, sendEmailId, sendDisabled, seedDisabled, drafts,
                   curPending, submit, seeding>>
    /\ IF listHidden = FALSE
       THEN loadEmails
       ELSE /\ loadCalls' = 0
            /\ reqs' = <<>>
            /\ UNCHANGED <<listHTML, loads>>
    /\ ev' = Event("tick", "", NoOutcome)
    /\ toasts' = <<>>
    /\ uncaught' = FALSE

\* ---------------------------------------------------------- getAIResponse
\* variant: response.ok is not looked at
AIThrows_NoOkCheck(o) == ~o.net \/ ~o.json \/ o.status # "success"

\* the try block of getAIResponse throws
AIThrows(o) == ~o.net \/ ~o.ok \/ ~o.json \/ o.status # "success"

\* getAIResponse once the generate_response request has settled with outcome
\* o: the value it returns, the notifications it raises, and whether an
\* exception leaves it
getAIResponse(o) ==
    IF AIThrows(o)
    THEN [value |-> FALLBACK, toasts |-> <<ToastDraftFailed>>, threw |-> FALSE]
    ELSE [value |-> o.body, toasts |-> <<>>, threw |-> FALSE]

\* ------------------------------------------------------------ detail view
\* emailsData.find(e => e.id === emailId): index of the first match, 0 if none
Find(emails, emailId) ==
    LET hits == {i \in 1..Len(emails) : StrictEq(emails[i].id, emailId)}
    IN IF hits = {} THEN 0 ELSE CHOOSE i \in hits : \A j \in hits : i <= j

\* showEmailDetail up to await getAIResponse
showEmailDetail(email) ==
    /\ Len(drafts) < MaxDrafts
    /\ listHidden' = TRUE
    /\ detailHidden' = FALSE
    /\ detailEmail' = email.id
    /\ editorValue' = PLACEHOLDER
    /\ editorDisabled' = TRUE
    /\ drafts' = Append(drafts, email.id)
    /\ curPending' = TRUE
    /\ reqs' = <<"generate_response">>

\* variant: showEmailDetail is called whatever find returns; with undefined
\* it switches the views and throws at email.subject
SelectCard_Unguarded(c) ==
    /\ listHidden = FALSE
    /\ c \in 1..Len(listHTML.cards)
    /\ LET emailId == listHTML.cards[c].emailId
           k == Find(emailsData, emailId)
       IN /\ IF k # 0
             THEN showEmailDetail(emailsData[k]) /\ uncaught' = FALSE
             ELSE /\ reqs' = <<>>
                  /\ listHidden' = TRUE
                  /\ detailHidden' = FALSE
                  /\ uncaught' = TRUE
                  /\ UNCHANGED <<detailEmail, editorValue, editorDisabled, drafts,
                                 curPending>>
          /\ ev' = Event("selectCard", emailId, NoOutcome)
    /\ toasts' = <<>>
    /\ loadCalls' = 0
    /\ UNCHANGED <<currentUserId, isAuthReady, emailsData, authPhase, polling,
                   listHTML, analytics, sendEmailId, sendDisabled, seedDisabled,
                   loads, submit, seeding>>

\* click on card c of the list (emailListView click handler)
SelectCard(c) ==
    /\ listHidden = FALSE
    /\ c \in 1..Len(listHTML.cards)
    /\ LET emailId == listHTML.cards[c].emailId
           k == Find(emailsData, emailId)
       IN /\ IF k # 0
             THEN showEmailDetail(emailsData[k])
             ELSE /\ reqs' = <<>>
                  /\ UNCHANGED <<listHidden, detailHidden, detailEmail, editorValue,
                                 editorDisabled, drafts, curPending>>
          /\ ev' = Event("selectCard", emailId, NoOutcome)
    /\ toasts' = <<>>
    /\ loadCalls' = 0
    /\ uncaught' = FALSE
    /\ UNCHANGED <<currentUserId, isAuthReady, emailsData, authPhase, polling,
                   listHTML, analytics, sendEmailId, sendDisabled, seedDisabled,
                   loads, submit, seeding>>

RemoveAt(s, i) == SubSeq(s, 1, i - 1) \o SubSeq(s, i + 1, Len(s))

\* showEmailDetail after await getAIResponse, for the i-th request in flight,
\* settled with outcome o
DraftDone(i, o) ==
    /\ i \in 1..Len(drafts)
    /\ LET r == getAIResponse(o)
       IN /\ toasts' = r.toasts
          /\ uncaught' = r.threw
          /\ IF r.threw
             THEN UNCHANGED <<editorValue, editorDisabled, sendEmailId>>
             ELSE /\ editorValue' = r.value
                  /\ editorDisabled' = FALSE
                  /\ sendEmailId' = DatasetStr(drafts[i])
    /\ drafts' = RemoveAt(drafts, i)
    /\ curPending' = (curPending /\ i # Len(drafts))
    /\ ev' = Event("draftDone", drafts[i], o)
    /\ reqs' = <<>>
    /\ loadCalls' = 0
    /\ UNCHANGED <<currentUserId, isAuthReady, emailsData, authPhase, polling,
                   listHidden, detailHidden, listHTML, analytics, detailEmail,
                   sendDisabled, seedDisabled, loads, submit, seeding>>

\* the user types text t into the editor
Edit(t) ==
    /\ detailHidden = FALSE
    /\ editorDisabled = FALSE
    /\ editorValue' = t
    /\ ev' = Event("edit", "", NoOutcome)
    /\ toasts' = <<>>
    /\ reqs' = <<>>
    /\ loadCalls' = 0
    /\ uncaught' = FALSE
    /\ UNCHANGED <<currentUserId, isAuthReady, emailsData, authPhase, polling,
                   listHidden, detailHidden, listHTML, analytics, detailEmail,
                   editorDisabled, sendEmailId, sendDisabled, seedDisabled, loads,
                   drafts, curPending, submit, seeding>>

\* variant: the back handler shows the list without hiding the detail view
goBackBtnClick_KeepDetail ==
    /\ UNCHANGED detailHidden
    /\ listHidden' = FALSE
    /\ loadEmails

\* variant: the back handler switches the views without reloading
goBackBtnClick_NoReload ==
    /\ detailHidden' = TRUE
    /\ listHidden' = FALSE
    /\ loadCalls' = 0
    /\ reqs' = <<>>
    /\ UNCHANGED <<listHTML, loads>>

\* goBackBtn click handler
goBackBtnClick ==
    /\ detailHidden' = TRUE
    /\ listHidden' = FALSE
    /\ loadEmails

\* the user clicks the back control of the detail view
GoBack ==
    /\ detailHidden = FALSE
    /\ UNCHANGED <<currentUserId, isAuthReady, emailsData, authPhase, polling,
                   analytics, detailEmail, editorValue, editorDisabled, sendEmailId,
                   sendDisabled, seedDisabled, drafts, curPending, submit, seeding>>
    /\ goBackBtnClick
    /\ ev' = Event("goBack", "", NoOutcome)
    /\ toasts' = <<>>
    /\ uncaught' = FALSE

\* ------------------------------------------------------------- submission
\* sendResponseBtn click handler up to await fetch; a disabled control
\* dispatches no click
SendClick ==
    /\ detailHidden = FALSE
    /\ sendDisabled = FALSE
    /\ LET emailId == sendEmailId
           finalResponse == editorValue
       IN IF Trim(finalResponse) = <<>>
          THEN /\ toasts' = <<ToastBlank>>
               /\ reqs' = <<>>
               /\ UNCHANGED <<sendDisabled, submit>>
          ELSE /\ sendDisabled' = TRUE
               /\ submit' = Append(submit, [email_id |-> emailId,
                                            final_response |-> finalResponse])
               /\ reqs' = <<"update_email_status">>
               /\ toasts' = <<>>
    /\ ev' = Event("send", "", NoOutcome)
    /\ loadCalls' = 0
    /\ uncaught' = FALSE
    /\ UNCHANGED <<currentUserId, isAuthReady, emailsData, authPhase, polling,
                   listHidden, detailHidden, listHTML, analytics, detailEmail,
                   editorValue, editorDisabled, sendEmailId, seedDisabled, loads,
                   drafts, curPending, seeding>>

\* the try block of a handler that reads data.status throws (response.ok is
\* not looked at)
StatusThrows(o) == ~o.net \/ ~o.json \/ o.status # "success"

\* variant: the control is re-enabled in the success branch, not in finally
SendDone_NoFinally(o) ==
    /\ submit # <<>>
    /\ submit' = Tail(submit)
    /\ UNCHANGED <<currentUserId, isAuthReady, emailsData, authPhase, polling,
                   analytics, detailEmail, editorValue, editorDisabled, sendEmailId,
                   seedDisabled, drafts, curPending, seeding>>
    /\ IF StatusThrows(o)
       THEN /\ toasts' = <<ToastSendFailed>>
            /\ reqs' = <<>>
            /\ loadCalls' = 0
            /\ UNCHANGED <<listHidden, detailHidden, listHTML, loads, sendDisabled>>
       ELSE /\ toasts' = <<ToastSent>>
            /\ goBackBtnClick
            /\ sendDisabled' = FALSE
    /\ ev' = Event("sendDone", "", o)
    /\ uncaught' = FALSE

\* sendResponseBtn click handler after the update_email_status request has
\* settled with outcome o
SendDone(o) ==
    /\ submit # <<>>
    /\ submit' = Tail(submit)
    /\ UNCHANGED <<currentUserId, isAuthReady, emailsData, authPhase, polling,
                   analytics, detailEmail, editorValue, editorDisabled, sendEmailId,
                   seedDisabled, drafts, curPending, seeding>>
    /\ IF StatusThrows(o)
       THEN /\ toasts' = <<ToastSendFailed>>
            /\ reqs' = <<>>
            /\ loadCalls' = 0
            /\ UNCHANGED <<listHidden, detailHidden, listHTML, loads>>
       ELSE /\ toasts' = <<ToastSent>>
            /\ goBackBtnClick
    /\ sendDisabled' = FALSE
    /\ ev' = Event("sendDone", "", o)
    /\ uncaught' = FALSE

\* ------------------------------------------------------------------ seed
\* seedDbBtn click handler up to await fetch
SeedClick ==
    /\ seedDisabled = FALSE
    /\ seedDisabled' = TRUE
    /\ toasts' = <<ToastSeeding>>
    /\ seeding' = seeding + 1
    /\ reqs' = <<"seed_emails">>
    /\ ev' = Event("seed", "", NoOutcome)
    /\ loadCalls' = 0
    /\ uncaught' = FALSE
    /\ UNCHANGED <<currentUserId, isAuthReady, emailsData, authPhase, polling,
                   listHidden, detailHidden, listHTML, analytics, detailEmail,
                   editorValue, editorDisabled, sendEmailId, sendDisabled, loads,
                   drafts, curPending, submit>>

\* variant: the reload sits in the finally block
SeedDone_AlwaysReload(o) ==
    /\ seeding > 0
    /\ seeding' = seeding - 1
    /\ UNCHANGED <<currentUserId, isAuthReady, emailsData, authPhase, polling,
                   listHidden, detailHidden, analytics, detailEmail, editorValue,
                   editorDisabled, sendEmailId, sendDisabled, drafts, curPending,
                   submit>>
    /\ toasts' = IF StatusThrows(o) THEN <<ToastSeedFailed>> ELSE <<ToastSeeded>>
    /\ loadEmails
    /\ seedDisabled' = FALSE
    /\ ev' = Event("seedDone", "", o)
    /\ uncaught' = FALSE

\* seedDbBtn click handler after the seed_emails request has settled with
\* outcome o
SeedDone(o) ==
    /\ seeding > 0
    /\ seeding' = seeding - 1
    /\ UNCHANGED <<currentUserId, isAuthReady, emailsData, authPhase, polling,
                   listHidden, detailHidden, analytics, detailEmail, editorValue,
                   editorDisabled, sendEmailId, sendDisabled, drafts, curPending,
                   submit>>
    /\ IF StatusThrows(o)
       THEN /\ toasts' = <<ToastSeedFailed>>
            /\ reqs' = <<>>
            /\ loadCalls' = 0
            /\ UNCHANGED <<listHTML, loads>>
       ELSE /\ toasts' = <<ToastSeeded>>
            /\ loadEmails
    /\ seedDisabled' = FALSE
    /\ ev' = Event("seedDone", "", o)
    /\ uncaught' = FALSE

\* ------------------------------------------------------- the specification
Next ==
    \/ AuthUser
    \/ AuthNoUser
    \/ SignInFailed
    \/ Tick
    \/ \E o \in FetchOutcomes : LoadDone(o)
    \/ \E c \in 1..MaxCards : SelectCard(c)
    \/ \E i \in 1..MaxDrafts, o \in DraftOutcomes : DraftDone(i, o)
    \/ \E t \in UserTexts : Edit(t)
    \/ GoBack
    \/ SendClick
    \/ \E o \in StatusOutcomes : SendDone(o)
    \/ SeedClick
    \/ \E o \in StatusOutcomes : SeedDone(o)

Spec == Init /\ [][Next]_vars

TypeOK ==
    /\ currentUserId \in {NoUser, Uid}
    /\ isAuthReady \in BOOLEAN
    /\ emailsData \in Payloads
    /\ loads \in 0..MaxLoads
    /\ Len(drafts) <= MaxDrafts
    /\ Len(submit) <= 1
    /\ seeding \in 0..1
    /\ polling \in 0..1

\* --------------------------------------- the aggregation on its own
\* The counts of loadEmails applied to every collection of at most MaxEmails
\* records: the session is signed in, the first fetch_emails request is in
\* flight (the state AuthUser leaves), and it settles with any collection.
AggStatuses == {"pending", "resolved", Undef}
AggSentiments == {"Positive", "neutral", "negative", Undef}
AggPriorities == {"Urgent", Undef}

AggEmails ==
    { Email("a", st, se, pr) :
        st \in AggStatuses, se \in AggSentiments, pr \in AggPriorities }

Collections == UNION { [1..n -> AggEmails] : n \in 0..MaxEmails }

InitAgg ==
    /\ currentUserId = Uid
    /\ isAuthReady = TRUE
    /\ emailsData = <<>>
    /\ authPhase = "signedIn"
    /\ polling = 1
    /\ listHidden = FALSE
    /\ detailHidden = TRUE
    /\ listHTML = Spinner
    /\ analytics = NoAnalytics
    /\ detailEmail = Undef
    /\ editorValue = <<>>
    /\ editorDisabled = FALSE
    /\ sendEmailId = Undef
    /\ sendDisabled = FALSE
    /\ seedDisabled = FALSE
    /\ loads = 1
    /\ drafts = <<>>
    /\ curPending = FALSE
    /\ submit = <<>>
    /\ seeding = 0
    /\ ev = Event("authUser", "", NoOutcome)
    /\ toasts = <<>>
    /\ reqs = <<"fetch_emails">>
    /\ loadCalls = 1
    /\ uncaught = FALSE

NextAgg ==
    /\ loads > 0
    /\ \E p \in Collections : LoadDone(Outcome(TRUE, TRUE, TRUE, Undef, p))

SpecAgg == InitAgg /\ [][NextAgg]_vars

\* ------------------------------------------------------------- properties
Range(s) == {s[i] : i \in 1..Len(s)}

\* a text that is empty or consists of whitespace only
IsBlank(s) == \A i \in 1..Len(s) : s[i] \in {" ", "\t", "\n"}

\* the request met a transport failure or a non-success HTTP status
RequestFailed(o) == ~o.net \/ ~o.ok

\* the reply carried a parsed payload whose status is "success"
PayloadSuccess(o) == o.net /\ o.json /\ o.status = "success"

\* C1: a click on the send control while the editor holds an empty or
\* whitespace-only text issues no update_email_status request, raises the
\* warning notification, and leaves the view state and the enabled state of
\* the send control as they were.
C1_BlankSendRejected ==
    [][(ev'.name = "send" /\ IsBlank(editorValue)) =>
          /\ reqs' = <<>>
          /\ submit' = submit
          /\ toasts' = <<[message |-> "Please write a response before sending.",
                          type |-> "warning"]>>
          /\ listHidden' = listHidden
          /\ detailHidden' = detailHidden
          /\ sendDisabled' = sendDisabled]_vars

C1_Witness ==
    /\ ev.name = "send"
    /\ detailHidden = FALSE
    /\ IsBlank(editorValue)
    /\ editorValue # <<>>
    /\ toasts # <<>>
    /\ reqs = <<>>

\* C2: when a fetch_emails request fails (transport failure or non-success
\* HTTP status), the step that handles the failure leaves the list area
\* showing the error placeholder, neither the empty-state placeholder nor
\* cards, and raises an error notification; the collection is untouched.
C2_FailedFetchShowsError ==
    [][(ev'.name = "loadDone" /\ RequestFailed(ev'.out)) =>
          /\ listHTML'.kind = "error"
          /\ listHTML'.kind \notin {"empty", "cards"}
          /\ \E i \in 1..Len(toasts') : toasts'[i].type = "error"
          /\ emailsData' = emailsData]_vars

C2_Witness ==
    /\ ev.name = "loadDone"
    /\ RequestFailed(ev.out)
    /\ listHTML.kind = "error"
    /\ emailsData # <<>>

\* C3: once polling has started, a timer tick issues a fetch_emails request
\* if and only if the list view is visible at the tick; a tick while the
\* detail view shows changes nothing of the program's state; and no step
\* cancels the timer.
C3_TickReloadsIffListVisible ==
    [][/\ ev'.name = "tick" =>
            /\ polling > 0
            /\ (reqs' = <<"fetch_emails">>) <=> (listHidden = FALSE)
            /\ listHidden = TRUE => (reqs' = <<>> /\ UNCHANGED progVars)
       /\ polling > 0 => polling' = polling]_vars

C3_Witness ==
    /\ ev.name = "tick"
    /\ polling > 0
    /\ listHidden = TRUE
    /\ detailHidden = FALSE
    /\ reqs = <<>>

\* C4: every step that takes the view from Detail to List is the back action
\* or a successful submission and makes exactly one loadEmails call, which
\* issues one fetch_emails request; and a successful submission ends with
\* the view in List state.
C4_DetailToListReloads ==
    [][/\ (listHidden = TRUE /\ listHidden' = FALSE) =>
            /\ ev'.name \in {"goBack", "sendDone"}
            /\ loadCalls' = 1
            /\ reqs' = <<"fetch_emails">>
            /\ loads' = loads + 1
       /\ (ev'.name = "sendDone" /\ PayloadSuccess(ev'.out)) =>
            /\ listHidden' = FALSE
            /\ detailHidden' = TRUE
            /\ loadCalls' = 1]_vars

C4_Witness ==
    /\ ev.name = "sendDone"
    /\ PayloadSuccess(ev.out)
    /\ listHidden = FALSE
    /\ detailHidden = TRUE
    /\ reqs = <<"fetch_emails">>

\* C5: whenever the detail view shows a record whose draft request is still
\* pending, the editor is disabled.
C5_EditorDisabledWhilePending ==
    (detailHidden = FALSE /\ curPending) => editorDisabled

\* C6: getAIResponse never raises; when the generate_response request meets
\* a transport failure, a non-success HTTP status or a payload whose status
\* is not "success" it returns the literal fallback text and raises one
\* error notification; otherwise it returns the drafted text and raises none.
C6_DraftFallback ==
    ev.name = "draftDone" =>
        /\ uncaught = FALSE
        /\ IF RequestFailed(ev.out) \/ ev.out.status # "success"
           THEN /\ editorValue = <<"Failed to generate AI response. Please try again.">>
                /\ Len(toasts) = 1
                /\ toasts[1].type = "error"
           ELSE /\ editorValue = ev.out.body
                /\ toasts = <<>>

C6_Witness ==
    /\ ev.name = "draftDone"
    /\ ev.out.net
    /\ ev.out.ok = FALSE
    /\ ev.out.status = "success"
    /\ editorValue = <<"Failed to generate AI response. Please try again.">>

\* C7: a loadEmails call made while the session is not ready issues no
\* fetch_emails request and leaves the collection, the list area and the
\* analytics snapshot unchanged.
C7_LoadNoOpBeforeReady ==
    [][(loadCalls' = 1 /\ isAuthReady' = FALSE) =>
          /\ reqs' = <<>>
          /\ loads' = loads
          /\ emailsData' = emailsData
          /\ listHTML' = listHTML
          /\ analytics' = analytics]_vars

C7_Witness ==
    /\ loadCalls = 1
    /\ isAuthReady = FALSE
    /\ ev.name = "seedDone"
    /\ reqs = <<>>
    /\ loads = 0

\* C8: when the anonymous sign-in fails the session is marked ready, exactly
\* one error notification (the authentication failure) is raised, nothing
\* propagates out of the callback, and no sign-in is attempted afterwards.
C8_SignInFailure ==
    /\ [](ev.name = "signInFailed" =>
            /\ isAuthReady
            /\ toasts = <<[message |-> "Authentication failed. Please check your Firebase setup.",
                           type |-> "error"]>>
            /\ reqs = <<>>
            /\ uncaught = FALSE)
    /\ [][authPhase = "failed" =>
            /\ authPhase' = "failed"
            /\ "signInAnonymously" \notin Range(reqs')]_vars

C8_Witness ==
    /\ ev.name = "signInFailed"
    /\ authPhase = "failed"
    /\ isAuthReady
    /\ currentUserId = NoUser

UserCaused == {"selectCard", "goBack", "send", "sendDone", "seed", "seedDone", "edit"}

\* C10 as stated: after a request has failed, the same request is issued
\* again only as the result of a user action.  (The list area shows the error
\* placeholder exactly when the latest fetch_emails request to settle failed
\* and no reload has begun since.)
C10_NoReissueWithoutUser ==
    [][(listHTML.kind = "error" /\ "fetch_emails" \in Range(reqs')) =>
          ev'.name \in UserCaused]_vars

\* C10 amended: no step that handles a failure issues a request, and
\* generate_response, update_email_status and seed_emails requests are
\* issued only by the user's action; a fetch_emails request that has failed
\* is issued again by the user's action or by the polling tick.
C10_NoRetryButPolling ==
    [][/\ ev'.name \in {"loadDone", "draftDone", "signInFailed"} => reqs' = <<>>
       /\ (ev'.name \in {"sendDone", "seedDone"} /\ ~PayloadSuccess(ev'.out)) =>
             reqs' = <<>>
       /\ "generate_response" \in Range(reqs') => ev'.name = "selectCard"
       /\ "update_email_status" \in Range(reqs') => ev'.name = "send"
       /\ "seed_emails" \in Range(reqs') => ev'.name = "seed"
       /\ (listHTML.kind = "error" /\ "fetch_emails" \in Range(reqs')) =>
             ev'.name \in UserCaused \cup {"tick"}]_vars

C10_Witness ==
    /\ ev.name = "loadDone"
    /\ RequestFailed(ev.out)
    /\ listHTML.kind = "error"
    /\ reqs = <<>>
    /\ polling > 0
    /\ listHidden = FALSE
    /\ loads = 0

\* C11: when a submission fails (transport failure, unparsable reply, or a
\* payload whose status is not "success") the completing step raises an error
\* notification, leaves the view as it was (Detail stays Detail), calls
\* loadEmails not at all and issues no request; and whatever the outcome, the
\* send control is enabled when the handler has finished.
C11_FailedSendReenables ==
    [][ev'.name = "sendDone" =>
          /\ sendDisabled' = FALSE
          /\ ~PayloadSuccess(ev'.out) =>
                /\ Len(toasts') = 1
                /\ toasts'[1].type = "error"
                /\ listHidden' = listHidden
                /\ detailHidden' = detailHidden
                /\ loadCalls' = 0
                /\ reqs' = <<>>
                /\ loads' = loads
                /\ listHTML' = listHTML]_vars

C11_Witness ==
    /\ ev.name = "sendDone"
    /\ ~PayloadSuccess(ev.out)
    /\ ev.out.json = FALSE
    /\ ev.out.net
    /\ detailHidden = FALSE
    /\ sendDisabled = FALSE
    /\ reqs = <<>>

\* indices of the records of the collection that satisfy P
Matching(P(_)) == {i \in 1..Len(emailsData) : P(emailsData[i])}

\* C12: for every collection a successful fetch returns, the resolved count
\* plus the pending count shown equals the total shown, the total is the
\* size of the collection, and every record whose status is not 'resolved'
\* (a missing status included) is counted as pending.
C12_ResolvedPlusPending ==
    ev.name = "loadDone" =>
        /\ analytics.total = Len(emailsData)
        /\ analytics.resolved + analytics.pending = analytics.total
        /\ analytics.resolved = Cardinality(Matching(LAMBDA e : e.status = "resolved"))
        /\ analytics.pending = Cardinality(Matching(LAMBDA e : e.status # "resolved"))

C12_Witness ==
    /\ ev.name = "loadDone"
    /\ Len(emailsData) = 3
    /\ Matching(LAMBDA e : e.status = "undefined") # {}
    /\ Matching(LAMBDA e : e.status = "resolved") # {}
    /\ analytics.pending = 2

\* C13: for every non-empty collection the urgent count plus the not-urgent
\* count equals the total, and a record without priority is not urgent.
C13_UrgentPlusNotUrgent ==
    (ev.name = "loadDone" /\ emailsData # <<>>) =>
        LET pc == priorityCounts(emailsData)
        IN /\ pc.urgent + pc.notUrgent = Len(emailsData)
           /\ pc.notUrgent >= Cardinality(Matching(LAMBDA e : e.priority = "undefined"))
           /\ pc.urgent = Cardinality(Matching(LAMBDA e : e.priority \in {"Urgent", "urgent"}))
           /\ analytics.urgentBar = [num |-> pc.urgent, den |-> Len(emailsData)]
           /\ analytics.notUrgentBar = [num |-> pc.notUrgent, den |-> Len(emailsData)]

C13_Witness ==
    /\ ev.name = "loadDone"
    /\ Len(emailsData) = 2
    /\ emailsData[1].priority = "Urgent"
    /\ emailsData[2].priority = "undefined"
    /\ analytics.notUrgentBar = [num |-> 1, den |-> 2]

\* the collection has the given statuses and (lower-case) sentiments
HasShape(statuses, sentiments) ==
    /\ Len(emailsData) = Len(statuses)
    /\ \A i \in 1..Len(emailsData) :
          /\ emailsData[i].status = statuses[i]
          /\ emailsData[i].sentiment \in
                (IF sentiments[i] = "positive" THEN {"positive", "Positive"}
                 ELSE {sentiments[i]})

\* C14: for every collection the positive, neutral and negative counts sum
\* to at most the total, a record without sentiment is counted in none of
\* them, and statuses [pending, resolved, pending] with sentiments
\* [positive, unset, negative] give resolved 1, pending 2, positive 1,
\* neutral 0, negative 1.
C14_SentimentCounts ==
    ev.name = "loadDone" =>
        LET sc == sentimentCounts(emailsData)
            sum == sc.positive + sc.neutral + sc.negative
        IN /\ sum <= Len(emailsData)
           /\ sum = Cardinality(Matching(LAMBDA e : e.sentiment # "undefined"))
           /\ sum > 0 => analytics.neutralBar = [num |-> sc.neutral, den |-> sum]
           /\ HasShape(<<"pending", "resolved", "pending">>,
                       <<"positive", "undefined", "negative">>) =>
                 /\ analytics.resolved = 1
                 /\ analytics.pending = 2
                 /\ sc = [positive |-> 1, neutral |-> 0, negative |-> 1]

C14_Witness ==
    /\ ev.name = "loadDone"
    /\ HasShape(<<"pending", "resolved", "pending">>,
                <<"positive", "undefined", "negative">>)
    /\ analytics.positiveBar = [num |-> 1, den |-> 2]

\* C15: in every reachable state exactly one of the list view and the
\* detail view is visible.
C15_ExactlyOneView == listHidden # detailHidden

C15_Witness ==
    /\ ev.name = "goBack"
    /\ listHidden = FALSE
    /\ detailHidden = TRUE
    /\ drafts # <<>>
    /\ detailEmail # "undefined"

\* the collection holds a record whose identifier is the string id
Present(id) == \E i \in 1..Len(emailsData) : emailsData[i].id = id

\* C16: selecting a card whose identifier is not in the current collection
\* displays no record, issues no generate_response request, changes nothing
\* of the program's state, and lets no error out of the handler.
C16_MissingRecordIgnored ==
    [][(ev'.name = "selectCard" /\ ~Present(ev'.arg)) =>
          /\ UNCHANGED progVars
          /\ reqs' = <<>>
          /\ toasts' = <<>>
          /\ uncaught' = FALSE]_vars

C16_Witness ==
    /\ ev.name = "selectCard"
    /\ ~Present(ev.arg)
    /\ ev.arg = "1"
    /\ listHidden = FALSE
    /\ listHTML.kind = "cards"
    /\ reqs = <<>>

\* the fetch_emails request got an ok response whose body parsed
FetchSucceeded(o) == o.net /\ o.ok /\ o.json

\* C17: the collection is empty at the start and is changed only by the
\* arrival of a successful fetch_emails response, which replaces it by its
\* payload whatever it held and whatever other reloads are in flight; a
\* failed fetch leaves it unchanged.  Hence it always equals the payload of
\* the successful response that arrived last.
C17_LastResponseWins ==
    /\ emailsData = <<>>
    /\ [][IF ev'.name = "loadDone" /\ FetchSucceeded(ev'.out)
          THEN emailsData' = ev'.out.body
          ELSE emailsData' = emailsData]_vars

C17_Witness ==
    /\ ev.name = "loadDone"
    /\ FetchSucceeded(ev.out)
    /\ emailsData = <<>>
    /\ analytics.positiveBar.num = 1
    /\ loads > 0

\* C18: every update_email_status request carries the identifier of the
\* record the detail view displays at the moment the send control is clicked.
C18_SendCarriesDisplayedId ==
    [][(ev'.name = "send" /\ reqs' = <<"update_email_status">>) =>
          submit'[Len(submit')].email_id = detailEmail]_vars

\* C19: whenever the detail view shows a record and no generate_response
\* request is in flight, the draft the program put into the editor is the
\* one requested for the displayed record.  (The continuation that writes a
\* draft into the editor also writes the identifier of its record into the
\* send control, so that identifier tells whose draft the editor got last.)
C19_EditorHoldsDisplayedDraft ==
    (detailHidden = FALSE /\ drafts = <<>>) => sendEmailId = detailEmail

\* C20: no update_email_status request is issued while the draft request
\* for the displayed record is pending, and the placeholder text is never
\* submitted as a final response.
C20_NoSendWhileDrafting ==
    [][/\ (ev'.name = "send" /\ detailHidden = FALSE /\ curPending) => reqs' = <<>>
       /\ \A i \in 1..Len(submit') :
             submit'[i].final_response # <<"AI is drafting a response...">>]_vars

====
